---- MODULE Spec2Model ----
(***************************************************************************)
(* Model of particle_evolution's src/main.rs: the driver (winit event      *)
(* loop callback in main) and the worker (simulation_loop) exchanging      *)
(* messages over two crossbeam bounded(1) channels.                        *)
(***************************************************************************)
EXTENDS Integers, Sequences, FiniteSets, TLC

\* ---------------------------------------------------------------- bounds
\* Frame geometry, scaled down from the 640 x 480 of simulate_frame.
Width == 2
Height == 2
\* The 60 s run budget of simulation_loop, in units of its 16 ms sleep.
BudgetTicks == 3
\* Longest time, in the same units, that one sleep may take.
MaxSleepTicks == 2
\* Number of WindowEvent notifications the windowing system delivers.
MaxEvents == 3

\* ------------------------------------------------------ program constants
Capacity == 1
BytesPerPixel == 4
ByteRange == 256
Opaque == 255

EventKinds == {"KeyboardInput", "CursorMoved", "CloseRequested"}

VARIABLES
    sim_to_main,    \* channel worker -> driver (bounded(1)), a sequence
    main_to_sim,    \* channel driver -> worker (bounded(1)), a sequence
    events,         \* shared_state.events, the accumulator
    control_flow,   \* *control_flow as the last callback left it
    drv,            \* driver: Running, ShuttingDown, Joining, Terminated
                    \* (and Forwarding, Clearing inside a WindowEvent
                    \* handler taken step by step)
    pixels_frame,   \* pixels.frame_mut(), the presentation buffer
    wpc,            \* worker position: poll, send, sleep, check, done
    frame_count,    \* simulation_loop's frame_count
    elapsed,        \* start_time.elapsed(), in sleep units
    skip_diag,      \* lines "Skipping frame due to busy main thread"
    send_diag,      \* lines "Failed to send events to simulation thread"
    arrived,        \* history: events handed to the driver's callback
    accepted,       \* history: ids of events whose try_send returned Ok
    offered,        \* history: ids of events cloned into an offered batch
    processed,      \* history: events visited by the worker's for loop
    received,       \* history: messages the driver's try_recv returned
    window,         \* history: send attempts since sim_to_main last changed
    iters_after_terminate \* history: iterations begun after Terminate sent

vars == <<sim_to_main, main_to_sim, events, control_flow, drv, pixels_frame,
          wpc, frame_count, elapsed, skip_diag, send_diag, arrived, accepted,
          offered, processed, received, window, iters_after_terminate>>

driver_vars == <<events, control_flow, drv, pixels_frame, send_diag, arrived,
                 accepted, offered, received>>
worker_vars == <<wpc, frame_count, elapsed, skip_diag, processed>>

\* ------------------------------------------------------------- messages
DrawRequest(frame_data) == [type |-> "DrawRequest", payload |-> frame_data]
Terminate == [type |-> "Terminate", payload |-> <<>>]
Events(batch) == [type |-> "Events", payload |-> batch]

\* ------------------------------------------------------------- channels
bounded == <<>>

\* Variant: a full slot is overwritten by the new message.
try_send_overwrite(chan, msg, connected) ==
    IF connected
    THEN [ok |-> TRUE, chan |-> <<msg>>]
    ELSE [ok |-> FALSE, chan |-> chan]

\* Variant: a full slot swallows the new message and still reports Ok.
try_send_silent(chan, msg, connected) ==
    IF connected
    THEN [ok |-> TRUE,
          chan |-> IF Len(chan) < Capacity THEN Append(chan, msg) ELSE chan]
    ELSE [ok |-> FALSE, chan |-> chan]

\* Variant: the channel was created with room for one message more.
try_send_roomy(chan, msg, connected) ==
    IF connected /\ Len(chan) < Capacity + 1
    THEN [ok |-> TRUE, chan |-> Append(chan, msg)]
    ELSE [ok |-> FALSE, chan |-> chan]

try_send(chan, msg, connected) ==
    IF connected /\ Len(chan) < Capacity
    THEN [ok |-> TRUE, chan |-> Append(chan, msg)]
    ELSE [ok |-> FALSE, chan |-> chan]

\* Variant: the receive returns the pending message without removing it.
try_recv_peek(chan) ==
    IF chan # <<>>
    THEN [ok |-> TRUE, msg |-> Head(chan), chan |-> chan]
    ELSE [ok |-> FALSE, msg |-> Terminate, chan |-> chan]

try_recv(chan) ==
    IF chan # <<>>
    THEN [ok |-> TRUE, msg |-> Head(chan), chan |-> Tail(chan)]
    ELSE [ok |-> FALSE, msg |-> Terminate, chan |-> chan]

\* A blocking send can complete only while the slot is free.
send_ready(chan) == Len(chan) < Capacity

\* ------------------------------------------------------- simulate_frame
\* Rust indexes from 0, TLA+ sequences from 1.
set_byte(v, index, b) == [v EXCEPT ![index + 1] = b]
byte_at(v, index) == v[index + 1]

frame_len == Width * Height * BytesPerPixel

\* Variant: the alpha byte is never written.
RECURSIVE fill_row_rgb(_, _, _, _)
fill_row_rgb(frame_data, frame_number, y, x) ==
    IF x >= Width THEN frame_data
    ELSE LET index == (y * Width + x) * 4
             r == set_byte(frame_data, index, x % ByteRange)
             g == set_byte(r, index + 1, y % ByteRange)
             b == set_byte(g, index + 2, frame_number % ByteRange)
         IN fill_row_rgb(b, frame_number, y, x + 1)

RECURSIVE fill_row(_, _, _, _)
fill_row(frame_data, frame_number, y, x) ==
    IF x >= Width THEN frame_data
    ELSE LET index == (y * Width + x) * 4
             r == set_byte(frame_data, index, x % ByteRange)
             g == set_byte(r, index + 1, y % ByteRange)
             b == set_byte(g, index + 2, frame_number % ByteRange)
             a == set_byte(b, index + 3, Opaque)
         IN fill_row(a, frame_number, y, x + 1)

RECURSIVE fill_rows(_, _, _)
fill_rows(frame_data, frame_number, y) ==
    IF y >= Height THEN frame_data
    ELSE fill_rows(fill_row(frame_data, frame_number, y, 0), frame_number, y + 1)

simulate_frame(frame_number) ==
    fill_rows([i \in 1..frame_len |-> 0], frame_number, 0)

\* The frame number a frame was computed from, read back from its B channel.
frame_number_of(frame_data) == byte_at(frame_data, 2)

Min(a, b) == IF a < b THEN a ELSE b

\* ----------------------------------------------------------------- Init
Init ==
    /\ sim_to_main = bounded
    /\ main_to_sim = bounded
    /\ events = <<>>
    /\ control_flow = "Poll"
    /\ drv = "Running"
    /\ pixels_frame = [i \in 1..frame_len |-> 0]
    /\ wpc = "poll"
    /\ frame_count = 0
    /\ elapsed = 0
    /\ skip_diag = 0
    /\ send_diag = 0
    /\ arrived = <<>>
    /\ accepted = {}
    /\ offered = {}
    /\ processed = <<>>
    /\ received = <<>>
    /\ window = [iters |-> 0, skips0 |-> 0, fc0 |-> 0]
    /\ iters_after_terminate = 0

\* --------------------------------------------------- driver: main's closure
\* Event::WindowEvent: push, try_send a clone of the accumulator, clear,
\* then Exit on CloseRequested.
accumulate(acc, event) == Append(acc, event)

\* event_loop.run: the callback writes Poll (and possibly Exit) through
\* control_flow; winit keeps Exit once it was set, whatever a later callback
\* writes, and may still deliver callbacks before LoopDestroyed.
\* Variant: a later callback's Poll replaces Exit.
control_flow_after_reset(current, written) == written

control_flow_after(current, written) ==
    IF current = "Exit" THEN "Exit" ELSE written

\* The driver's position that follows from control_flow after a callback.
position_after(flow) == IF flow = "Exit" THEN "ShuttingDown" ELSE "Running"

\* main_to_sim_rx lives in simulation_loop and is dropped when it returns.
\* Variant: the receiver outlives the worker.
main_to_sim_connected_always == TRUE

main_to_sim_connected == wpc # "done"

\* sim_to_main_rx is owned by the event loop closure for the whole run.
\* Variant: the frame is only sent while no event batch is waiting.
sim_to_main_connected_if_idle == main_to_sim = <<>>

sim_to_main_connected == TRUE

\* Variant: the clear after the forward is missing.
cleared_never(acc) == acc

cleared(acc) == <<>>

MainWindowEvent(kind) ==
    /\ drv \in {"Running", "ShuttingDown"}
    /\ Len(arrived) < MaxEvents
    /\ LET event == [id |-> Len(arrived) + 1, kind |-> kind]
           pushed == accumulate(events, event)
           r == try_send(main_to_sim, Events(pushed), main_to_sim_connected)
           flow == control_flow_after(control_flow,
                      IF kind = "CloseRequested" THEN "Exit" ELSE "Poll")
       IN /\ arrived' = Append(arrived, event)
          /\ offered' = offered \cup {pushed[i].id : i \in 1..Len(pushed)}
          /\ main_to_sim' = r.chan
          /\ accepted' = IF r.ok
                         THEN accepted \cup {pushed[i].id : i \in 1..Len(pushed)}
                         ELSE accepted
          /\ send_diag' = IF r.ok THEN send_diag ELSE send_diag + 1
          /\ events' = cleared(pushed)
          /\ control_flow' = flow
          /\ drv' = position_after(flow)
    /\ UNCHANGED <<sim_to_main, pixels_frame, received, window,
                   iters_after_terminate>>
    /\ UNCHANGED worker_vars

\* Event::MainEventsCleared: try_recv; a DrawRequest is copied into the
\* pixel buffer and rendered, a failed render sets Exit.
MainEventsCleared ==
    /\ drv \in {"Running", "ShuttingDown"}
    /\ LET r == try_recv(sim_to_main)
       IN /\ sim_to_main' = r.chan
          /\ IF r.ok
             THEN /\ received' = Append(received,
                        [type |-> r.msg.type,
                         frame_number |-> IF r.msg.type = "DrawRequest"
                                          THEN frame_number_of(r.msg.payload)
                                          ELSE 0])
                  /\ window' = [iters |-> 0, skips0 |-> skip_diag,
                                fc0 |-> frame_count]
             ELSE UNCHANGED <<received, window>>
          /\ IF r.ok /\ r.msg.type = "DrawRequest"
             THEN /\ pixels_frame' = r.msg.payload
                  /\ \E render_ok \in BOOLEAN :
                        control_flow' = control_flow_after(control_flow,
                            IF render_ok THEN "Poll" ELSE "Exit")
             ELSE /\ pixels_frame' = pixels_frame
                  /\ control_flow' = control_flow_after(control_flow, "Poll")
          /\ drv' = position_after(control_flow')
    /\ UNCHANGED <<main_to_sim, events, send_diag, arrived, accepted, offered,
                   iters_after_terminate>>
    /\ UNCHANGED worker_vars

\* Event::LoopDestroyed, first statement: the blocking send of Terminate on
\* sim_to_main_tx.
MainSendTerminate ==
    /\ drv = "ShuttingDown"
    /\ send_ready(sim_to_main)
    /\ sim_to_main' = Append(sim_to_main, Terminate)
    /\ drv' = "Joining"
    /\ UNCHANGED <<main_to_sim, events, control_flow, pixels_frame, send_diag,
                   arrived, accepted, offered, received, window,
                   iters_after_terminate>>
    /\ UNCHANGED worker_vars

\* Event::LoopDestroyed, second statement: simulation_thread.join().
MainJoin ==
    /\ drv = "Joining"
    /\ wpc = "done"
    /\ drv' = "Terminated"
    /\ UNCHANGED <<sim_to_main, main_to_sim, events, control_flow,
                   pixels_frame, send_diag, arrived, accepted, offered,
                   received, window, iters_after_terminate>>
    /\ UNCHANGED worker_vars

\* --------------------------------------------------- worker: simulation_loop
\* Top of the loop: try_recv on main_to_sim_rx and the for loop over the batch.
SimPollEvents ==
    /\ wpc = "poll"
    /\ LET r == try_recv(main_to_sim)
       IN /\ main_to_sim' = r.chan
          /\ processed' = IF r.ok THEN processed \o r.msg.payload
                          ELSE processed
    /\ wpc' = "send"
    /\ iters_after_terminate' =
          IF drv \in {"Joining", "Terminated"}
          THEN iters_after_terminate + 1 ELSE iters_after_terminate
    /\ UNCHANGED <<sim_to_main, frame_count, elapsed, skip_diag, window>>
    /\ UNCHANGED driver_vars

\* The match on the try_send result: Ok advances frame_count, Err logs.
\* Variant: the counter advances on every attempt.
frame_count_after_attempt(ok, n) == n + 1

frame_count_after(ok, n) == IF ok THEN n + 1 ELSE n

\* Variant: a rejected send is dropped without its diagnostic.
skip_diag_after_quiet(ok, n) == n

skip_diag_after(ok, n) == IF ok THEN n ELSE n + 1

\* simulate_frame(frame_count) and the try_send of the DrawRequest.
SimSendFrame ==
    /\ wpc = "send"
    /\ LET frame_data == simulate_frame(frame_count)
           r == try_send(sim_to_main, DrawRequest(frame_data),
                         sim_to_main_connected)
       IN /\ sim_to_main' = r.chan
          /\ frame_count' = frame_count_after(r.ok, frame_count)
          /\ skip_diag' = skip_diag_after(r.ok, skip_diag)
          /\ window' = IF r.ok
                       THEN [iters |-> 0, skips0 |-> skip_diag',
                             fc0 |-> frame_count']
                       ELSE [window EXCEPT !.iters = @ + 1]
    /\ wpc' = "sleep"
    /\ UNCHANGED <<main_to_sim, elapsed, processed, iters_after_terminate>>
    /\ UNCHANGED driver_vars

\* std::thread::sleep(16 ms): at least one unit of time passes.
SimSleep ==
    /\ wpc = "sleep"
    /\ \E d \in 1..MaxSleepTicks :
          elapsed' = Min(elapsed + d, BudgetTicks + 1)
    /\ wpc' = "check"
    /\ UNCHANGED <<sim_to_main, main_to_sim, frame_count, skip_diag,
                   processed, window, iters_after_terminate>>
    /\ UNCHANGED driver_vars

\* start_time.elapsed() > Duration::from_secs(60)
\* Variant: the comparison is the wrong way round.
budget_elapsed_reversed(t) == t < BudgetTicks

budget_elapsed(t) == t > BudgetTicks

\* The budget test that ends the loop body.
SimCheckBudget ==
    /\ wpc = "check"
    /\ wpc' = IF budget_elapsed(elapsed) THEN "done" ELSE "poll"
    /\ UNCHANGED <<sim_to_main, main_to_sim, frame_count, elapsed, skip_diag,
                   processed, window, iters_after_terminate>>
    /\ UNCHANGED driver_vars

\* ----------------------------------------------------------------- Next
Next ==
    \/ \E kind \in EventKinds : MainWindowEvent(kind)
    \/ MainEventsCleared
    \/ MainSendTerminate
    \/ MainJoin
    \/ SimPollEvents
    \/ SimSendFrame
    \/ SimSleep
    \/ SimCheckBudget

Spec == Init /\ [][Next]_vars

\* ------------------------------------------- the handler, lock by lock
\* Event::WindowEvent taken one critical section of shared_state.events at
\* a time.  The lock is taken three times: for the push (lines 60-63), for
\* the clone that builds the batch (held to the end of the if-let, lines
\* 66-70), and for the clear (line 73).
\* The event the driver's handler is working on: its own last push.
OtherKind == "Resized"

current_event ==
    LET own == {i \in 1..Len(arrived) : arrived[i].kind # OtherKind}
    IN arrived[CHOOSE i \in own : \A j \in own : j <= i]

StepPush(kind) ==
    /\ drv \in {"Running", "ShuttingDown"}
    /\ Len(arrived) < MaxEvents
    /\ LET event == [id |-> Len(arrived) + 1, kind |-> kind]
       IN /\ arrived' = Append(arrived, event)
          /\ events' = accumulate(events, event)
    /\ drv' = "Forwarding"
    /\ UNCHANGED <<sim_to_main, main_to_sim, control_flow, pixels_frame,
                   send_diag, accepted, offered, received, window,
                   iters_after_terminate>>
    /\ UNCHANGED worker_vars

StepForward ==
    /\ drv = "Forwarding"
    /\ LET r == try_send(main_to_sim, Events(events), main_to_sim_connected)
       IN /\ offered' = offered \cup {events[i].id : i \in 1..Len(events)}
          /\ main_to_sim' = r.chan
          /\ accepted' = IF r.ok
                         THEN accepted \cup {events[i].id : i \in 1..Len(events)}
                         ELSE accepted
          /\ send_diag' = IF r.ok THEN send_diag ELSE send_diag + 1
    /\ drv' = "Clearing"
    /\ UNCHANGED <<sim_to_main, events, control_flow, pixels_frame, arrived,
                   received, window, iters_after_terminate>>
    /\ UNCHANGED worker_vars

StepClear ==
    /\ drv = "Clearing"
    /\ events' = cleared(events)
    /\ control_flow' = control_flow_after(control_flow,
            IF current_event.kind = "CloseRequested" THEN "Exit" ELSE "Poll")
    /\ drv' = position_after(control_flow')
    /\ UNCHANGED <<sim_to_main, main_to_sim, pixels_frame, send_diag, arrived,
                   accepted, offered, received, window, iters_after_terminate>>
    /\ UNCHANGED worker_vars

\* A second context holding the Arc<SharedState> appends under the lock.
OtherAppend ==
    /\ drv \notin {"Joining", "Terminated"}
    /\ Len(arrived) < MaxEvents
    /\ LET event == [id |-> Len(arrived) + 1, kind |-> OtherKind]
       IN /\ arrived' = Append(arrived, event)
          /\ events' = accumulate(events, event)
    /\ UNCHANGED <<sim_to_main, main_to_sim, control_flow, drv, pixels_frame,
                   send_diag, accepted, offered, received, window,
                   iters_after_terminate>>
    /\ UNCHANGED worker_vars

StepNext ==
    \/ \E kind \in EventKinds : StepPush(kind)
    \/ StepForward
    \/ StepClear
    \/ MainEventsCleared
    \/ MainSendTerminate
    \/ MainJoin
    \/ SimPollEvents
    \/ SimSendFrame
    \/ SimSleep
    \/ SimCheckBudget

\* The program with the handler's three critical sections as separate steps.
StepSpec == Init /\ [][StepNext]_vars

SharedNext ==
    \/ StepNext
    \/ OtherAppend

\* The same, with a second context appending to the accumulator.
SharedSpec == Init /\ [][SharedNext]_vars

\* The two threads are scheduled by the operating system, and a blocked send
\* or join completes once it can: weak fairness of every step of the worker
\* and of the two teardown steps of the driver.
FairSpec ==
    /\ Spec
    /\ WF_vars(SimPollEvents)
    /\ WF_vars(SimSendFrame)
    /\ WF_vars(SimSleep)
    /\ WF_vars(SimCheckBudget)
    /\ WF_vars(MainSendTerminate)
    /\ WF_vars(MainJoin)

\* ======================================================================
\* Claims
\* ======================================================================

\* C1: after the driver's teardown has sent Terminate, the worker observes
\* it and leaves its loop by the end of at most one further iteration: it
\* never begins a second iteration after the send.
C1_WorkerStopsAfterTerminate == iters_after_terminate <= 1

\* C2: once the driver is ShuttingDown it always reaches Terminated: the
\* teardown send and the join both complete from every reachable state.
C2_ShutdownCompletes == (drv = "ShuttingDown") ~> (drv = "Terminated")

\* C3: no send ever blocks its sender: whenever a thread stands at one of
\* the program's three sends (frame, event batch, Terminate), the send can
\* complete at once, whatever the mailbox holds.
C3_NoSendBlocks ==
    /\ wpc = "send" => ENABLED SimSendFrame
    /\ (drv \in {"Running", "ShuttingDown"} /\ Len(arrived) < MaxEvents)
          => \A kind \in EventKinds : ENABLED MainWindowEvent(kind)
    /\ drv = "ShuttingDown" => ENABLED MainSendTerminate

\* ---------------------------------------------------------------- C4
HoldsFrame(chan) == chan # <<>> /\ Head(chan).type = "DrawRequest"

\* C4: each mailbox holds at most one message; a send made while a message
\* is pending is rejected and leaves the pending message as it was (not
\* overwritten, nothing queued); a receive returns exactly that message.
C4_SingleSlot ==
    /\ [](Len(sim_to_main) <= 1 /\ Len(main_to_sim) <= 1)
    /\ [][/\ (sim_to_main # <<>> /\ sim_to_main' # <<>>)
                => sim_to_main' = sim_to_main
          /\ (main_to_sim # <<>> /\ main_to_sim' # <<>>)
                => main_to_sim' = main_to_sim
          /\ (wpc = "send" /\ wpc' = "sleep" /\ sim_to_main # <<>>)
                => (skip_diag' = skip_diag + 1 /\ frame_count' = frame_count)
          /\ (arrived' # arrived /\ main_to_sim # <<>>)
                => (send_diag' = send_diag + 1 /\ accepted' = accepted)
          /\ (received' # received /\ HoldsFrame(sim_to_main))
                => pixels_frame' = Head(sim_to_main).payload
          /\ (processed' # processed)
                => (/\ main_to_sim # <<>>
                    /\ processed' = processed \o Head(main_to_sim).payload)
         ]_vars

\* A frame send and an event forward were both rejected by a full slot, and
\* the frame that was pending has since been received.
C4_Witness ==
    /\ skip_diag >= 1
    /\ send_diag >= 1
    /\ wpc # "done"
    /\ main_to_sim # <<>>
    /\ Len(received) >= 1
    /\ Len(processed) >= 1

\* ---------------------------------------------------------------- C5
FrameEnters ==
    /\ sim_to_main' # sim_to_main
    /\ HoldsFrame(sim_to_main')

\* C5: frame_count starts at 0, and every step changes it by exactly 1 when
\* the step puts a frame into the frame mailbox and by 0 otherwise (so it
\* never decreases, and a rejected send leaves it alone).
C5_FrameCounter ==
    /\ frame_count = 0
    /\ [][frame_count' = frame_count + (IF FrameEnters THEN 1 ELSE 0)]_vars

\* The counter has advanced twice and at least one send was rejected.
C5_Witness == frame_count >= 2 /\ skip_diag >= 1

\* ---------------------------------------------------------------- C6
\* C6 as claimed: while the driver has never received from the frame
\* mailbox, frame_count is 0.
C6_CounterStaysZero == (received = <<>>) => frame_count = 0

\* C6 as amended: while the driver has never received from the frame
\* mailbox, frame_count is 1 exactly when the first frame sits in the
\* mailbox and 0 otherwise; it never exceeds 1.
C6_CounterAtMostOne ==
    (received = <<>>) =>
        /\ frame_count = (IF HoldsFrame(sim_to_main) THEN 1 ELSE 0)
        /\ HoldsFrame(sim_to_main)
              => frame_number_of(Head(sim_to_main).payload) = 0

\* Nothing was ever received, the loop went on for two more iterations.
C6_Witness == received = <<>> /\ frame_count = 1 /\ skip_diag >= 2

\* ---------------------------------------------------------------- C7
\* C7: while a frame is pending and the driver does not receive, after k
\* further send attempts exactly k dropped-frame diagnostics were added, the
\* counter is what it was when the window began, and the pending frame is
\* still the one that opened the window (the k new frames were dropped).
C7_StalledWindow ==
    HoldsFrame(sim_to_main) =>
        /\ skip_diag = window.skips0 + window.iters
        /\ frame_count = window.fc0
        /\ frame_number_of(Head(sim_to_main).payload)
              = (window.fc0 - 1) % ByteRange

\* A window of at least two iterations that did not start at frame 0.
C7_Witness ==
    /\ HoldsFrame(sim_to_main)
    /\ window.iters >= 2
    /\ window.fc0 >= 2

\* ---------------------------------------------------------------- C8
Ids(seq) == {seq[i].id : i \in 1..Len(seq)}

\* seq lists events of arrived, unchanged, in strictly increasing arrival
\* position: an order-preserving subsequence without repetition.
IsArrivalOrdered(seq) ==
    /\ \A i \in 1..Len(seq) :
          /\ seq[i].id \in 1..Len(arrived)
          /\ arrived[seq[i].id] = seq[i]
    /\ \A i, j \in 1..Len(seq) : i < j => seq[i].id < seq[j].id

\* C8: the batch in the event mailbox lists its events in arrival order, and
\* the events the worker has processed form an order-preserving subsequence
\* of the events the driver received, none of them twice.
C8_EventOrder ==
    /\ main_to_sim # <<>> => IsArrivalOrdered(Head(main_to_sim).payload)
    /\ IsArrivalOrdered(processed)

\* Two events were processed and an earlier one was dropped on the way.
C8_Witness ==
    /\ Len(processed) >= 2
    /\ Ids(processed) # 1..Len(arrived)
    /\ main_to_sim = <<>>

\* ---------------------------------------------------------------- C9
PendingIds == IF main_to_sim = <<>> THEN {} ELSE Ids(Head(main_to_sim).payload)

\* C9 as claimed: no event is both in an offered batch and still in the
\* accumulator; an event reaches the worker only if its forward was
\* accepted; and once the worker has finished, every event whose forward was
\* accepted has been processed.
C9_AcceptedIsProcessed ==
    /\ Ids(events) \cap offered = {}
    /\ Ids(processed) \subseteq accepted
    /\ wpc = "done" => accepted \subseteq Ids(processed)

\* C9 as amended: no event is both in an offered batch and still in the
\* accumulator; every appended event is offered; an event reaches the worker
\* only if its forward was accepted; an accepted event is either processed
\* or still pending in the event mailbox, and every poll of the worker
\* processes the pending batch.
C9_AcceptedIsProcessedOrPending ==
    /\ [](/\ Ids(events) \cap offered = {}
          /\ offered = 1..Len(arrived)
          /\ accepted \subseteq offered
          /\ Ids(processed) \subseteq accepted
          /\ accepted = Ids(processed) \cup PendingIds
          /\ Ids(processed) \cap PendingIds = {})
    /\ [][(wpc = "poll" /\ wpc' # "poll")
            => (/\ Ids(processed') = Ids(processed) \cup PendingIds
                /\ main_to_sim' = <<>>)]_vars

\* The worker has finished with an accepted batch still in the mailbox,
\* after processing one event and after one forward was rejected.
C9_Witness ==
    /\ wpc = "done"
    /\ PendingIds # {}
    /\ Ids(processed) # {}
    /\ offered # accepted

\* --------------------------------------------------------------- C10
WellFormedFrame(f) ==
    /\ Len(f) = Width * Height * 4
    /\ \A x \in 0..(Width - 1), y \in 0..(Height - 1) :
          byte_at(f, 4 * (y * Width + x) + 3) = 255

\* C10: the frame in the frame mailbox, the frame last copied into the pixel
\* buffer, and the frame simulate_frame computes for the current counter and
\* for counters on either side of the 8-bit wrap all have Width*Height*4
\* bytes with alpha 255 at index 4*(y*Width+x)+3.
C10_FrameShape ==
    /\ HoldsFrame(sim_to_main) => WellFormedFrame(Head(sim_to_main).payload)
    /\ (\E i \in 1..Len(received) : received[i].type = "DrawRequest")
          => WellFormedFrame(pixels_frame)
    /\ \A n \in {frame_count, frame_count + ByteRange - 1,
                 frame_count + ByteRange} :
          WellFormedFrame(simulate_frame(n))

\* The second frame has been delivered into the pixel buffer.
C10_Witness ==
    /\ Len(received) >= 2
    /\ pixels_frame = simulate_frame(1)

\* --------------------------------------------------------------- C11
\* C11: the accumulator is empty after every handling of a WindowEvent,
\* whether the forward was accepted or rejected (mailbox full, or worker
\* gone), so its length stays bounded.
C11_AccumulatorCleared ==
    /\ [](events = <<>>)
    /\ [][(arrived' # arrived) =>
            /\ events' = <<>>
            /\ (accepted' # accepted)
                  <=> (main_to_sim = <<>> /\ wpc # "done")
            /\ (accepted' = accepted) <=> (send_diag' = send_diag + 1)]_vars

\* Forwards were rejected both by a full mailbox and by the worker being
\* gone, one was accepted, and the accumulator is empty.
C11_Witness ==
    /\ events = <<>>
    /\ wpc = "done"
    /\ Len(arrived) = 3
    /\ accepted = {1}
    /\ PendingIds = {1}
    /\ send_diag = 2

\* --------------------------------------------------------------- C12
\* C12: an event appended by a second context while a forward is under way
\* is never removed without having been snapshotted: every event ever
\* appended is in an offered batch or still in the accumulator.
C12_SnapshotClearAtomic ==
    \A i \in 1..Len(arrived) :
        \/ arrived[i].id \in offered
        \/ \E j \in 1..Len(events) : events[j] = arrived[i]

\* --------------------------------------------------------------- C13
LastArrivedIsClose ==
    /\ arrived' # arrived
    /\ arrived'[Len(arrived')].kind = "CloseRequested"

\* C13: the driver only moves Running -> ShuttingDown -> (join) ->
\* Terminated; it leaves Running only on a close request or on a frame
\* whose presentation failed, a close request always makes it leave, and no
\* later callback puts it back into Running.
C13_LifecycleOneWay ==
    [][/\ (drv' # drv) =>
             <<drv, drv'>> \in {<<"Running", "ShuttingDown">>,
                                <<"ShuttingDown", "Joining">>,
                                <<"Joining", "Terminated">>}
       /\ (drv = "Running" /\ drv' # "Running") =>
             (LastArrivedIsClose \/ received' # received)
       /\ LastArrivedIsClose => drv' # "Running"
       /\ (drv # "Running") => (drv' # "Running")
       /\ (control_flow = "Exit") => (control_flow' = "Exit")]_vars

\* The first event was the close request, a later event was still handled,
\* and the driver went on to Terminated.
C13_Witness ==
    /\ Len(arrived) >= 2
    /\ arrived[1].kind = "CloseRequested"
    /\ drv = "Terminated"

\* --------------------------------------------------------------- C14
\* C14: the worker's loop ends in every execution: time passes with every
\* sleep, and once the budget has elapsed the worker reaches its exit,
\* whatever the mailboxes hold; it exits only with the budget elapsed and
\* after at least one frame send attempt (accepted or rejected).
C14_BudgetEndsLoop ==
    /\ <>(wpc = "done")
    /\ (elapsed > BudgetTicks) ~> (wpc = "done")
    /\ [](wpc = "done" =>
            (elapsed > BudgetTicks /\ frame_count + skip_diag >= 1))

\* The worker has exited although the driver never sent or received
\* anything; its later frames were all rejected.
C14_Witness ==
    /\ wpc = "done"
    /\ arrived = <<>>
    /\ received = <<>>
    /\ skip_diag >= 1

\* --------------------------------------------------------------- C15
PendingFrames == IF HoldsFrame(sim_to_main) THEN 1 ELSE 0

\* C15: the frames the driver has received are the frames numbered
\* 0, 1, 2, ... in that order, each once; the frame pending in the mailbox
\* is the next number; and frame_count is the number of frames accepted so
\* far (received plus pending), so accepted frame numbers have no gap.
C15_FramesInOrder ==
    /\ \A i \in 1..Len(received) :
          /\ received[i].type = "DrawRequest"
          /\ received[i].frame_number = (i - 1) % ByteRange
    /\ HoldsFrame(sim_to_main) =>
          frame_number_of(Head(sim_to_main).payload)
             = Len(received) % ByteRange
    /\ frame_count = Len(received) + PendingFrames

\* Three frames were presented and at least one frame was dropped between.
C15_Witness ==
    /\ Len(received) >= 3
    /\ skip_diag >= 1

\* --------------------------------------------------------------- C16
\* C16: a step that forwards an event batch leaves the frame mailbox, the
\* frame counter and the frame diagnostics unchanged, and is accepted
\* exactly when the event mailbox is empty and the worker alive; a frame
\* send leaves the event mailbox, the accumulator and the event diagnostics
\* unchanged, and is accepted exactly when the frame mailbox is empty; a
\* frame receive leaves the event mailbox and the accumulator unchanged.
C16_DirectionsIndependent ==
    [][/\ (arrived' # arrived) =>
             /\ sim_to_main' = sim_to_main
             /\ frame_count' = frame_count
             /\ skip_diag' = skip_diag
             /\ (accepted' # accepted)
                   <=> (main_to_sim = <<>> /\ wpc # "done")
       /\ (wpc = "send" /\ wpc' # "send") =>
             /\ main_to_sim' = main_to_sim
             /\ events' = events
             /\ send_diag' = send_diag
             /\ accepted' = accepted
             /\ (frame_count' # frame_count) <=> (sim_to_main = <<>>)
       /\ (received' # received) =>
             /\ main_to_sim' = main_to_sim
             /\ events' = events
             /\ send_diag' = send_diag]_vars

\* Both mailboxes are full, each filled by its first send: one of the two
\* sends was accepted while the other direction was full.
C16_Witness ==
    /\ HoldsFrame(sim_to_main)
    /\ PendingIds = {1}
    /\ frame_count = 1
    /\ skip_diag = 0
    /\ send_diag = 0

\* --------------------------------------------------------------- C17
InHandler == drv \in {"Forwarding", "Clearing"}

\* C17: with the driver as the only appender the accumulator holds at most
\* one event, namely the event being handled, and nothing between
\* handlers; every batch offered to the event mailbox carries exactly the
\* event whose notification triggered the forward.
C17_SingleEventBatches ==
    /\ [](/\ Len(events) <= 1
          /\ InHandler => events = <<arrived[Len(arrived)]>>
          /\ ~InHandler => events = <<>>
          /\ main_to_sim # <<>> => Len(Head(main_to_sim).payload) = 1)
    /\ [][(drv = "Forwarding" /\ drv' # "Forwarding") =>
            /\ Len(arrived) \notin offered
            /\ offered' = offered \cup {Len(arrived)}
            /\ (accepted' # accepted) =>
                  main_to_sim' = <<Events(<<arrived[Len(arrived)]>>)>>]_vars

\* The third event's batch has just been offered and rejected while the
\* first event's batch is still in the mailbox.
C17_Witness ==
    /\ drv = "Clearing"
    /\ Len(arrived) = 3
    /\ events = <<arrived[3]>>
    /\ PendingIds = {1}
    /\ send_diag = 2

\* --------------------------------------------------------------- C18
\* C18: the worker's exit leaves the driver where it was; after the exit
\* the driver can still take callbacks, no new frame appears in the frame
\* mailbox (so polls yield at most the frame that was pending, then
\* nothing), every event forward is rejected with a diagnostic and leaves
\* the event mailbox alone, and the accumulator is cleared all the same.
C18_DriverSurvivesWorkerExit ==
    /\ [][/\ (wpc # "done" /\ wpc' = "done") =>
                (drv' = drv /\ control_flow' = control_flow)
          /\ (wpc = "done" /\ arrived' # arrived) =>
                /\ send_diag' = send_diag + 1
                /\ accepted' = accepted
                /\ main_to_sim' = main_to_sim
                /\ events' = <<>>
          /\ (wpc = "done" /\ received' # received) => sim_to_main' = <<>>
          /\ (wpc = "done" /\ HoldsFrame(sim_to_main')) =>
                sim_to_main' = sim_to_main]_vars
    /\ [](wpc = "done" => frame_count = Len(received) + PendingFrames)
    /\ []((wpc = "done" /\ drv = "Running") =>
            /\ ENABLED MainEventsCleared
            /\ Len(arrived) < MaxEvents =>
                  \A kind \in EventKinds : ENABLED MainWindowEvent(kind))

\* After the worker exited without ever receiving a batch, the driver is
\* still Running, has drained the frame mailbox and had forwards rejected.
C18_Witness ==
    /\ wpc = "done"
    /\ drv = "Running"
    /\ processed = <<>>
    /\ main_to_sim = <<>>
    /\ send_diag >= 2
    /\ Len(received) = frame_count
    /\ frame_count >= 1

====
